---- MODULE Spec2Model ----
(***************************************************************************)
(* A model of src/main.py: the PhoneBookEntry class with its validating    *)
(* setters, read_phone_book, sort_phone_book, validate_phone_book_entry    *)
(* and the driver main().                                                  *)
(*                                                                         *)
(* A Python str is modelled as a sequence of characters; a character is a  *)
(* one-element TLA+ string (the character U+00B2 SUPERSCRIPT TWO is        *)
(* written "U+00B2").  The texts the program only prints (messages,        *)
(* diagnostics) are TLA+ strings.                                          *)
(***************************************************************************)
EXTENDS Integers, Sequences, FiniteSets, TLC

VARIABLES
    pc,                   \* position of the running call
    file,                 \* what the path names: a sequence of lines, or why open() fails
    i,                    \* index of the next element of the loop being run
    phone_book_entries,   \* main.py:97 / main.py:170
    criteria,             \* main.py:171, the argument of sort_phone_book
    ordering,             \* main.py:172, the argument of sort_phone_book
    sorted_entries,       \* main.py:173, what sort_phone_book returned
    validation_message,   \* main.py:178, what the validator returned last
    validation_messages,  \* main.py:174
    output,               \* what has been printed, one element per print
    exit_status,          \* the status of the process once it has ended
    entry,                \* a PhoneBookEntry object handled on its own
    call,                 \* the last setter call on entry: field, value, exception
    assigned              \* the fields of entry a setter call has assigned

vars == <<pc, file, i, phone_book_entries, criteria, ordering, sorted_entries,
          validation_message, validation_messages, output, exit_status,
          entry, call, assigned>>

None == "None"

(***************************************************************************)
(* Characters and str methods                                              *)
(***************************************************************************)

\* str.split() and str.strip() without arguments: the characters that are whitespace
Whitespace == {" ", "\t", "\n", "\r"}

\* the decimal digits
DecimalDigits == {"0", "1", "2", "3", "4", "5", "6", "7", "8", "9"}

\* the characters str.isdigit() takes for digits: the decimal digits and the
\* characters of Numeric_Type=Digit, such as U+00B2 SUPERSCRIPT TWO
DigitChars == DecimalDigits \cup {"U+00B2"}

\* ord(c) of the characters a sort key is made of
CodePoint ==
    [c \in {"*", "-", "1", "2", "3", "4", "5", "6", "7", "8", "9", "0", ":",
            "A", "B", "L", "a", "b", "e", "n", "o"} |->
        CASE c = "*" -> 42 [] c = "-" -> 45 [] c = "0" -> 48 [] c = "1" -> 49
          [] c = "2" -> 50 [] c = "3" -> 51 [] c = "4" -> 52 [] c = "5" -> 53
          [] c = "6" -> 54 [] c = "7" -> 55 [] c = "8" -> 56 [] c = "9" -> 57
          [] c = ":" -> 58 [] c = "A" -> 65 [] c = "B" -> 66 [] c = "L" -> 76
          [] c = "a" -> 97 [] c = "b" -> 98 [] c = "e" -> 101 [] c = "n" -> 110
          [] c = "o" -> 111]

\* str.isdigit(): at least one character, and every character a digit
isdigit(s) ==
    /\ Len(s) > 0
    /\ \A k \in 1..Len(s) : s[k] \in DigitChars

\* str.lower() of one character
LowerChar(c) ==
    CASE c = "A" -> "a" [] c = "D" -> "d" [] c = "N" -> "n" [] c = "P" -> "p"
      [] c = "S" -> "s" [] OTHER -> c

\* str.lower()
lower(s) == [k \in 1..Len(s) |-> LowerChar(s[k])]

RECURSIVE lstrip(_)
\* the string without its leading whitespace
lstrip(s) ==
    IF s # <<>> /\ Head(s) \in Whitespace THEN lstrip(Tail(s)) ELSE s

RECURSIVE rstrip(_)
\* the string without its trailing whitespace
rstrip(s) ==
    IF s # <<>> /\ s[Len(s)] \in Whitespace
    THEN rstrip(SubSeq(s, 1, Len(s) - 1))
    ELSE s

\* str.strip()
strip(s) == rstrip(lstrip(s))

RECURSIVE TokenLen(_)
\* the length of the run of non-whitespace characters s starts with
TokenLen(s) ==
    IF s = <<>> \/ Head(s) \in Whitespace THEN 0 ELSE 1 + TokenLen(Tail(s))

RECURSIVE split(_)
\* str.split(): skip whitespace, take the run of non-whitespace, repeat
split(s) ==
    LET t == lstrip(s)
        n == TokenLen(t)
    IN  IF t = <<>> THEN <<>>
        ELSE <<SubSeq(t, 1, n)>> \o split(SubSeq(t, n + 1, Len(t)))

\* s < t on str: by code point at the first difference, a proper prefix first
StrLess(s, t) ==
    \E k \in 1..(Len(t)) :
        /\ \A j \in 1..(k - 1) : j <= Len(s) /\ s[j] = t[j]
        /\ \/ k = Len(s) + 1
           \/ k <= Len(s) /\ CodePoint[s[k]] < CodePoint[t[k]]

(***************************************************************************)
(* class PhoneBookEntry                                                    *)
(***************************************************************************)

\* PhoneBookEntry.__init__: the four values are stored unchecked.  id is the
\* identity of the object made.
PhoneBookEntry(id, name, surname, separator, phone_number) ==
    [id |-> id, name |-> name, surname |-> surname, separator |-> separator,
     phone_number |-> phone_number]

Separators == {<<"-">>, <<":">>}

PhoneLen == 9

\* the name setter: the exception it raises, or None
NameError(name) ==
    IF name = <<>> THEN "ValueError: Name cannot be empty" ELSE None

\* the surname setter: the exception it raises, or None
SurnameError(surname) ==
    IF surname = <<>> THEN "ValueError: Surname cannot be empty" ELSE None

\* the separator setter: the exception it raises, or None
SeparatorError(separator) ==
    IF separator \notin Separators
    THEN "ValueError: Separator must be '-' or ':'"
    ELSE None

\* the phone_number setter: the exception it raises, or None
PhoneNumberError(phone_number) ==
    IF ~isdigit(phone_number) THEN "ValueError: Phone number must be numeric"
    ELSE IF Len(phone_number) # PhoneLen
         THEN "ValueError: Phone number must be 9 digits long"
         ELSE None

\* the exception the setter of field f raises on value v, or None
SetterError(f, v) ==
    CASE f = "name" -> NameError(v)
      [] f = "surname" -> SurnameError(v)
      [] f = "separator" -> SeparatorError(v)
      [] f = "phone_number" -> PhoneNumberError(v)

\* repr with the separator in front of the surname
ReprSeparatorFirst(e) ==
    e.name \o <<" ">> \o e.separator \o <<" ">> \o e.surname \o <<" ">>
        \o e.phone_number

\* PhoneBookEntry.__repr__
Repr(e) ==
    e.name \o <<" ">> \o e.surname \o <<" ">> \o e.separator \o <<" ">>
        \o e.phone_number

(***************************************************************************)
(* read_phone_book                                                         *)
(***************************************************************************)

\* ParseLine with the three tokens of a line taken for name, surname and
\* separator
ParseLineThreeAsSurname(id, line) ==
    LET values == split(strip(line))
    IN  IF Len(values) = 4
        THEN <<PhoneBookEntry(id, values[1], values[2], values[3], values[4])>>
        ELSE IF Len(values) = 3
             THEN <<PhoneBookEntry(id, values[1], values[2], values[3], <<>>)>>
             ELSE <<>>

\* the body of the loop over the lines: the entries one line adds (one or none)
ParseLine(id, line) ==
    LET values == split(strip(line))
    IN  IF Len(values) = 4
        THEN <<PhoneBookEntry(id, values[1], values[2], values[3], values[4])>>
        ELSE IF Len(values) = 3
             THEN <<PhoneBookEntry(id, values[1], <<>>, values[2], values[3])>>
             ELSE <<>>

(***************************************************************************)
(* sort_phone_book                                                         *)
(***************************************************************************)

s_name == <<"n", "a", "m", "e">>
s_surname == <<"s", "u", "r", "n", "a", "m", "e">>
s_phone_number == <<"p", "h", "o", "n", "e", "_", "n", "u", "m", "b", "e", "r">>
s_descending == <<"d", "e", "s", "c", "e", "n", "d", "i", "n", "g">>

\* criteria in {'name', 'surname', 'phone_number'}
CriteriaKnown(c) == c \in {s_name, s_surname, s_phone_number}

\* key = lambda phone_book_entry: getattr(phone_book_entry, criteria, None)
Key(e, c) ==
    CASE c = s_name -> e.name
      [] c = s_surname -> e.surname
      [] c = s_phone_number -> e.phone_number

\* the list with its elements in the opposite order
Reverse(xs) == [k \in 1..Len(xs) |-> xs[Len(xs) + 1 - k]]

RECURSIVE InsertByKey(_, _, _)
\* x put into the sorted list ys behind every element whose key is not greater
InsertByKey(x, ys, c) ==
    IF ys = <<>> THEN <<x>>
    ELSE IF StrLess(Key(x, c), Key(Head(ys), c))
         THEN <<x>> \o ys
         ELSE <<Head(ys)>> \o InsertByKey(x, Tail(ys), c)

RECURSIVE StableSort(_, _)
\* a stable ascending sort by key that only uses < on the keys
StableSort(xs, c) ==
    IF xs = <<>> THEN <<>>
    ELSE InsertByKey(xs[Len(xs)], StableSort(SubSeq(xs, 1, Len(xs) - 1), c), c)

\* sorted that sorts ascending and reverses the result when reverse is set
sortedThenReversed(xs, c, reverse) ==
    IF reverse THEN Reverse(StableSort(xs, c)) ELSE StableSort(xs, c)

\* sorted(xs, key=key, reverse=reverse): with reverse the list is reversed,
\* sorted stably and reversed again, so that equal keys keep their order
sorted(xs, c, reverse) ==
    IF reverse THEN Reverse(StableSort(Reverse(xs), c)) ELSE StableSort(xs, c)

\* the ordering compared after lower-casing, which sort_phone_book leaves to
\* its caller
IsReverseAnyCase(o) == lower(o) = s_descending

\* reverse = ordering == "descending"
IsReverse(o) == o = s_descending

\* sort_phone_book that leaves the list as it is on an unknown criterion
sortKeepingOrderOnUnknown(xs, c, o) ==
    IF CriteriaKnown(c)
    THEN [exit |-> FALSE, value |-> sorted(xs, c, IsReverse(o))]
    ELSE [exit |-> FALSE, value |-> xs]

\* sort_phone_book: either the process exits with the diagnostic, or the
\* sorted list is returned
sort_phone_book(xs, c, o) ==
    IF CriteriaKnown(c)
    THEN [exit |-> FALSE, value |-> sorted(xs, c, IsReverse(o))]
    ELSE [exit |-> TRUE, value |-> <<>>]

(***************************************************************************)
(* validate_phone_book_entry                                               *)
(***************************************************************************)

MsgName == "Name cannot be empty"
MsgNumeric == "phone number must be numeric"
MsgLength == "phone number must be 9 digits"
\* (the program writes the two characters between backquotes)
MsgSeparator == "the separator should be ':' or '-'"

\* the validator with the length check counting the digits of the phone number
validateCountingDigits(e) ==
    (IF e.name = <<>> THEN <<MsgName>> ELSE <<>>)
    \o (IF ~isdigit(e.phone_number) THEN <<MsgNumeric>> ELSE <<>>)
    \o (IF Cardinality({k \in 1..Len(e.phone_number) :
                           e.phone_number[k] \in DigitChars}) # PhoneLen
        THEN <<MsgLength>> ELSE <<>>)
    \o (IF e.separator \notin {<<":">>, <<"-">>} THEN <<MsgSeparator>> ELSE <<>>)

\* the validator with a check of the surname, as its setter has one
validateWithSurname(e) ==
    (IF e.name = <<>> THEN <<MsgName>> ELSE <<>>)
    \o (IF e.surname = <<>> THEN <<"Surname cannot be empty">> ELSE <<>>)
    \o (IF ~isdigit(e.phone_number) THEN <<MsgNumeric>> ELSE <<>>)
    \o (IF Len(e.phone_number) # PhoneLen THEN <<MsgLength>> ELSE <<>>)
    \o (IF e.separator \notin {<<":">>, <<"-">>} THEN <<MsgSeparator>> ELSE <<>>)

\* validate_phone_book_entry: the list of messages, appended in this order
validate_phone_book_entry(e) ==
    (IF e.name = <<>> THEN <<MsgName>> ELSE <<>>)
    \o (IF ~isdigit(e.phone_number) THEN <<MsgNumeric>> ELSE <<>>)
    \o (IF Len(e.phone_number) # PhoneLen THEN <<MsgLength>> ELSE <<>>)
    \o (IF e.separator \notin {<<":">>, <<"-">>} THEN <<MsgSeparator>> ELSE <<>>)

(***************************************************************************)
(* The state outside a run                                                 *)
(***************************************************************************)

\* a str variable that is not bound yet
Unbound == <<None>>

\* the exit status of a process that has not ended
Running == -1

\* the source a path names: its lines, and the exception that opening or
\* reading it raises once those lines are read (None: it is read to its end)
Source(lines, error) == [lines |-> lines, error |-> error]

NoSource == Source(<<>>, "unset")

\* no setter has been called
NoCall == [field |-> None, value |-> <<>>, raised |-> None]

\* PhoneBookEntry(): every field is the empty str
DefaultEntry == PhoneBookEntry(0, <<>>, <<>>, <<>>, <<>>)

\* one print: what kind of line it is, and its parts
Printed(kind, line, n, msgs) ==
    [kind |-> kind, line |-> line, n |-> n, msgs |-> msgs]

Diagnostic(kind) == Printed(kind, <<>>, 0, <<>>)

(***************************************************************************)
(* read_phone_book, line by line                                           *)
(***************************************************************************)

\* main.py:100-109, one pass of the loop
ReadLine ==
    /\ pc = "read_loop"
    /\ i <= Len(file.lines)
    /\ phone_book_entries' = phone_book_entries \o ParseLine(i, file.lines[i])
    /\ i' = i + 1
    /\ UNCHANGED <<pc, file, criteria, ordering, sorted_entries,
                   validation_message, validation_messages, output,
                   exit_status, entry, call, assigned>>

\* main.py:116
ReadReturn ==
    /\ pc = "read_loop"
    /\ i > Len(file.lines)
    /\ file.error = None
    /\ pc' = "input_criteria"
    /\ UNCHANGED <<file, i, phone_book_entries, criteria, ordering,
                   sorted_entries, validation_message, validation_messages,
                   output, exit_status, entry, call, assigned>>

\* the process ends with this status after this print
Exit(kind, status) ==
    /\ output' = Append(output, Diagnostic(kind))
    /\ exit_status' = status
    /\ pc' = "exit"

\* main.py:110-112
ReadFileNotFound ==
    /\ pc = "read_loop"
    /\ i > Len(file.lines)
    /\ file.error = "FileNotFoundError"
    /\ Exit("File not found", 1)
    /\ UNCHANGED <<file, i, phone_book_entries, criteria, ordering,
                   sorted_entries, validation_message, validation_messages,
                   entry, call, assigned>>

\* main.py:113-115
ReadIOError ==
    /\ pc = "read_loop"
    /\ i > Len(file.lines)
    /\ file.error = "IOError"
    /\ Exit("An error occurred while reading the file", 1)
    /\ UNCHANGED <<file, i, phone_book_entries, criteria, ordering,
                   sorted_entries, validation_message, validation_messages,
                   entry, call, assigned>>

\* an exception that is no OSError (UnicodeDecodeError on bytes that do not
\* decode) passes main.py:110-115 and main.py:188-191: traceback, status 1
ReadUncaught ==
    /\ pc = "read_loop"
    /\ i > Len(file.lines)
    /\ file.error = "UnicodeDecodeError"
    /\ Exit("Traceback", 1)
    /\ UNCHANGED <<file, i, phone_book_entries, criteria, ordering,
                   sorted_entries, validation_message, validation_messages,
                   entry, call, assigned>>

(***************************************************************************)
(* sort_phone_book, called                                                 *)
(***************************************************************************)

\* main.py:173 with main.py:137-138
SortReturn ==
    /\ pc = "sort"
    /\ ~sort_phone_book(phone_book_entries, criteria, ordering).exit
    /\ sorted_entries' = sort_phone_book(phone_book_entries, criteria, ordering).value
    /\ pc' = "print_header"
    /\ UNCHANGED <<file, i, phone_book_entries, criteria, ordering,
                   validation_message, validation_messages, output,
                   exit_status, entry, call, assigned>>

\* main.py:134-136
SortExit ==
    /\ pc = "sort"
    /\ sort_phone_book(phone_book_entries, criteria, ordering).exit
    /\ Exit("War: Wrong criteria", 1)
    /\ UNCHANGED <<file, i, phone_book_entries, criteria, ordering,
                   sorted_entries, validation_message, validation_messages,
                   entry, call, assigned>>

(***************************************************************************)
(* main                                                                    *)
(***************************************************************************)

\* the sequences over S of length at most n
SeqsUpTo(S, n) == UNION {[1..k -> S] : k \in 0..n}

\* the longest file
MaxLines == 3

\* "Ann Lee - 123456789"
L_Ann ==
    <<"A", "n", "n", " ", "L", "e", "e", " ", "-", " ",
      "1", "2", "3", "4", "5", "6", "7", "8", "9">>

\* "Bob : 12345"
L_Bob == <<"B", "o", "b", " ", ":", " ", "1", "2", "3", "4", "5">>

\* "Bob Lee - 987654321" and the end of the line
L_Bob2 ==
    <<"B", "o", "b", " ", "L", "e", "e", " ", "-", " ",
      "9", "8", "7", "6", "5", "4", "3", "2", "1", "\n">>

\* "Abe  * 12a" after a tab, and the end of the line
L_Abe == <<"\t", "A", "b", "e", " ", " ", "*", " ", "1", "2", "a", "\n">>

\* "Bob", a line that is no entry
L_Skip == <<"B", "o", "b">>

DriverLines == {L_Ann, L_Bob, L_Bob2, L_Abe, L_Skip}

\* what the path typed at main.py:164 can name
DriverSources ==
    {Source(ls, None) : ls \in SeqsUpTo(DriverLines, MaxLines)}
    \cup {Source(<<>>, "FileNotFoundError")}
    \cup {Source(ls, e) : ls \in SeqsUpTo({L_Bob, L_Abe}, 1),
                          e \in {"IOError", "UnicodeDecodeError"}}

\* what is typed at main.py:171
CriteriaInputs ==
    {s_name,
     <<" ", "N", "a", "m", "e", " ">>,
     <<"S", "U", "R", "N", "A", "M", "E">>,
     s_surname,
     <<"P", "h", "o", "n", "e", "_", "N", "u", "m", "b", "e", "r">>,
     <<"n", "a", "m">>,
     <<>>}

\* what is typed at main.py:172
OrderingInputs ==
    {s_descending,
     <<"D", "e", "s", "c", "e", "n", "d", "i", "n", "g", " ">>,
     <<"a", "s", "c", "e", "n", "d", "i", "n", "g">>,
     <<>>}

\* main.py:164-170, up to the call of read_phone_book: the path is typed and
\* names a source
InputPath ==
    /\ pc = "input_path"
    /\ \E f \in DriverSources : file' = f
    /\ phone_book_entries' = <<>>
    /\ i' = 1
    /\ pc' = "read_loop"
    /\ UNCHANGED <<criteria, ordering, sorted_entries, validation_message,
                   validation_messages, output, exit_status, entry, call,
                   assigned>>

\* main.py:171
InputCriteria ==
    /\ pc = "input_criteria"
    /\ \E typed \in CriteriaInputs : criteria' = lower(strip(typed))
    /\ pc' = "input_ordering"
    /\ UNCHANGED <<file, i, phone_book_entries, ordering, sorted_entries,
                   validation_message, validation_messages, output,
                   exit_status, entry, call, assigned>>

\* main.py:172
InputOrdering ==
    /\ pc = "input_ordering"
    /\ \E typed \in OrderingInputs : ordering' = lower(strip(typed))
    /\ pc' = "sort"
    /\ UNCHANGED <<file, i, phone_book_entries, criteria, sorted_entries,
                   validation_message, validation_messages, output,
                   exit_status, entry, call, assigned>>

Prompts == {"input_path", "input_criteria", "input_ordering"}

\* main.py:188-191: the user interrupts main(); the message is printed and
\* the module ends, so the process ends with status 0
KeyboardInterrupt ==
    /\ pc \in Prompts
    /\ Exit("Program interrupted by user.", 0)
    /\ UNCHANGED <<file, i, phone_book_entries, criteria, ordering,
                   sorted_entries, validation_message, validation_messages,
                   entry, call, assigned>>

\* input() at the end of the standard input raises EOFError, which nothing
\* catches: traceback, status 1
InputEOF ==
    /\ pc \in Prompts
    /\ Exit("Traceback", 1)
    /\ UNCHANGED <<file, i, phone_book_entries, criteria, ordering,
                   sorted_entries, validation_message, validation_messages,
                   entry, call, assigned>>

\* the line numbered from enumerate's index itself
ValidationLineFromZero(k, msgs) == Printed("validation", <<>>, k, msgs)

\* main.py:184, print(f"line{i+1}: ..."), i the index enumerate gives from 0
ValidationLine(k, msgs) == Printed("validation", <<>>, k + 1, msgs)

\* main.py:174-175
PrintHeader ==
    /\ pc = "print_header"
    /\ validation_messages' = <<>>
    /\ output' = Append(output, Diagnostic("File Structure:"))
    /\ i' = 1
    /\ pc' = "print_loop"
    /\ UNCHANGED <<file, phone_book_entries, criteria, ordering,
                   sorted_entries, validation_message, exit_status, entry,
                   call, assigned>>

\* main.py:176-180, one pass of the loop
PrintEntry ==
    /\ pc = "print_loop"
    /\ i <= Len(sorted_entries)
    /\ LET e == sorted_entries[i]
           m == validate_phone_book_entry(e)
       IN  /\ output' = Append(output, Printed("entry", Repr(e), 0, <<>>))
           /\ validation_message' = m
           /\ validation_messages' =
                  IF m # <<>> THEN Append(validation_messages, m)
                  ELSE validation_messages
    /\ i' = i + 1
    /\ UNCHANGED <<pc, file, phone_book_entries, criteria, ordering,
                   sorted_entries, exit_status, entry, call, assigned>>

\* main.py:181-182
PrintValidationsHeader ==
    /\ pc = "print_loop"
    /\ i > Len(sorted_entries)
    /\ validation_messages # <<>>
    /\ output' = Append(output, Diagnostic("Validations:"))
    /\ i' = 1
    /\ pc' = "validations_loop"
    /\ UNCHANGED <<file, phone_book_entries, criteria, ordering,
                   sorted_entries, validation_message, validation_messages,
                   exit_status, entry, call, assigned>>

\* main.py:183-184, one pass of the loop
PrintValidationLine ==
    /\ pc = "validations_loop"
    /\ i <= Len(validation_messages)
    /\ output' = Append(output, ValidationLine(i - 1, validation_messages[i]))
    /\ i' = i + 1
    /\ UNCHANGED <<pc, file, phone_book_entries, criteria, ordering,
                   sorted_entries, validation_message, validation_messages,
                   exit_status, entry, call, assigned>>

\* main() returns and the process ends
Finish ==
    /\ \/ pc = "print_loop" /\ i > Len(sorted_entries) /\ validation_messages = <<>>
       \/ pc = "validations_loop" /\ i > Len(validation_messages)
    /\ exit_status' = 0
    /\ pc' = "exit"
    /\ UNCHANGED <<file, i, phone_book_entries, criteria, ordering,
                   sorted_entries, validation_message, validation_messages,
                   output, entry, call, assigned>>

\* the state main() starts in
Init ==
    /\ pc = "input_path"
    /\ file = NoSource
    /\ i = 1
    /\ phone_book_entries = <<>>
    /\ criteria = Unbound
    /\ ordering = Unbound
    /\ sorted_entries = <<>>
    /\ validation_message = <<>>
    /\ validation_messages = <<>>
    /\ output = <<>>
    /\ exit_status = Running
    /\ entry = DefaultEntry
    /\ call = NoCall
    /\ assigned = {}

Next ==
    \/ InputPath
    \/ ReadLine
    \/ ReadReturn
    \/ ReadFileNotFound
    \/ ReadIOError
    \/ ReadUncaught
    \/ InputCriteria
    \/ InputOrdering
    \/ KeyboardInterrupt
    \/ InputEOF
    \/ SortReturn
    \/ SortExit
    \/ PrintHeader
    \/ PrintEntry
    \/ PrintValidationsHeader
    \/ PrintValidationLine
    \/ Finish

\* the driver, from the start of main()
Spec == Init /\ [][Next]_vars

(***************************************************************************)
(* The calls of the functions on their own                                 *)
(***************************************************************************)

\* nothing is read yet
NothingRead ==
    /\ file = NoSource
    /\ i = 1
    /\ phone_book_entries = <<>>

\* sort_phone_book is not called yet
NothingSorted ==
    /\ criteria = Unbound
    /\ ordering = Unbound
    /\ sorted_entries = <<>>

\* nothing is printed or validated yet
NothingPrinted ==
    /\ validation_message = <<>>
    /\ validation_messages = <<>>
    /\ output = <<>>
    /\ exit_status = Running

\* no entry is handled on its own
NoEntry ==
    /\ entry = DefaultEntry
    /\ call = NoCall
    /\ assigned = {}

\* -------- read_phone_book(path) on a readable file

\* the most tokens on a line
MaxTokens == 5

TokenPool ==
    << <<"A", "n">>, <<"-">>, <<"1", "2">>, <<":">>, <<"b">>, <<"7">>, <<"*">> >>

RECURSIVE JoinTokens(_, _, _)
\* the first k tokens of the pool from position from on, each followed by gap
JoinTokens(k, from, gap) ==
    IF k = 0 THEN <<>>
    ELSE TokenPool[((from - 1) % Len(TokenPool)) + 1] \o gap
             \o JoinTokens(k - 1, from + 1, gap)

\* lines of 0..MaxTokens tokens: single spaces and no line end, or a leading
\* tab, runs of whitespace between the tokens and the line end
ReadLines ==
    {rstrip(JoinTokens(k, 1, <<" ">>)) : k \in 0..MaxTokens}
    \cup {<<"\t">> \o JoinTokens(k, 2, <<" ", "\t">>) \o <<"\r", "\n">> :
              k \in 0..MaxTokens}

InitRead ==
    /\ pc = "read_loop"
    /\ \E ls \in SeqsUpTo(ReadLines, MaxLines) : file = Source(ls, None)
    /\ i = 1
    /\ phone_book_entries = <<>>
    /\ NothingSorted
    /\ NothingPrinted
    /\ NoEntry

NextRead ==
    \/ ReadLine
    \/ ReadReturn

\* read_phone_book on every readable file
SpecRead == InitRead /\ [][NextRead]_vars

\* -------- sort_phone_book(phone_book_entries, criteria, ordering)

\* the longest list sorted
MaxEntries == 3

\* the fields of the entries sorted: equal and different keys on every field
SortPool ==
    << [name |-> <<"a">>, surname |-> <<>>, separator |-> <<"-">>,
        phone_number |-> <<"1">>],
       [name |-> <<"a">>, surname |-> <<"a">>, separator |-> <<":">>,
        phone_number |-> <<"2">>],
       [name |-> <<"b">>, surname |-> <<>>, separator |-> <<"-">>,
        phone_number |-> <<"2">>],
       [name |-> <<"a", "b">>, surname |-> <<"b">>, separator |-> <<"*">>,
        phone_number |-> <<"1">>],
       [name |-> <<"B">>, surname |-> <<"a">>, separator |-> <<"-">>,
        phone_number |-> <<"1", "2">>] >>

\* the list of the objects made from the pool's fields picks[1], picks[2], ...
SortList(picks) ==
    [k \in 1..Len(picks) |->
        PhoneBookEntry(k, SortPool[picks[k]].name, SortPool[picks[k]].surname,
                       SortPool[picks[k]].separator,
                       SortPool[picks[k]].phone_number)]

\* the criteria passed: the three fields, "Name", "separator" and ""
SortCriteria ==
    {s_name, s_surname, s_phone_number, <<"N", "a", "m", "e">>,
     <<"s", "e", "p", "a", "r", "a", "t", "o", "r">>, <<>>}

\* the orderings passed: "descending", "Descending", "ascending" and ""
SortOrderings ==
    {s_descending,
     <<"D", "e", "s", "c", "e", "n", "d", "i", "n", "g">>,
     <<"a", "s", "c", "e", "n", "d", "i", "n", "g">>,
     <<>>}

InitSort ==
    /\ pc = "sort"
    /\ file = NoSource
    /\ i = 1
    /\ \E picks \in SeqsUpTo(1..Len(SortPool), MaxEntries) :
           phone_book_entries = SortList(picks)
    /\ criteria \in SortCriteria
    /\ ordering \in SortOrderings
    /\ sorted_entries = <<>>
    /\ NothingPrinted
    /\ NoEntry

NextSort ==
    \/ SortReturn
    \/ SortExit

\* sort_phone_book on every list, criteria and ordering
SpecSort == InitSort /\ [][NextSort]_vars

\* -------- validate_phone_book_entry(entry)

\* the longest phone number
MaxPhone == 10

DigitRow == <<"1", "2", "3", "4", "5", "6", "7", "8", "9", "0">>

\* "1", "12", "123", ...: n decimal digits
Digits(n) == [k \in 1..n |-> DigitRow[((k - 1) % Len(DigitRow)) + 1]]

\* s with its last character replaced by c
WithLast(s, c) == [k \in 1..Len(s) |-> IF k = Len(s) THEN c ELSE s[k]]

\* phone numbers of every length up to MaxPhone: all decimal digits, or with
\* a letter, or with U+00B2
PhoneValues ==
    {Digits(n) : n \in 0..MaxPhone}
    \cup {WithLast(Digits(n), c) : n \in 1..MaxPhone, c \in {"a", "U+00B2"}}

s_John == <<"J", "o", "h", "n">>
s_Smith == <<"S", "m", "i", "t", "h">>

NameValues == {<<>>, s_John}
SurnameValues == {<<>>, s_Smith}
SeparatorValues == {<<"-">>, <<":">>, <<"*">>, <<>>, <<"-", "-">>}

InitValidate ==
    /\ pc = "validate"
    /\ NothingRead
    /\ NothingSorted
    /\ NothingPrinted
    /\ \E n \in NameValues, s \in SurnameValues, sep \in SeparatorValues,
          p \in PhoneValues : entry = PhoneBookEntry(1, n, s, sep, p)
    /\ call = NoCall
    /\ assigned = {}

\* validation_message = validate_phone_book_entry(entry)
CallValidate ==
    /\ pc = "validate"
    /\ validation_message' = validate_phone_book_entry(entry)
    /\ pc' = "validated"
    /\ UNCHANGED <<file, i, phone_book_entries, criteria, ordering,
                   sorted_entries, validation_messages, output, exit_status,
                   entry, call, assigned>>

\* validate_phone_book_entry on every entry
SpecValidate == InitValidate /\ [][CallValidate]_vars

\* -------- entry.name = v, entry.surname = v, entry.separator = v,
\* -------- entry.phone_number = v

\* the values assigned to the phone number
SetPhoneValues ==
    {<<>>, Digits(5), Digits(PhoneLen), Digits(PhoneLen + 1),
     WithLast(Digits(PhoneLen), "a"), WithLast(Digits(PhoneLen), "U+00B2"),
     WithLast(Digits(PhoneLen), "0")}

\* the values assigned to field f
SetValues(f) ==
    CASE f = "name" -> NameValues \cup {<<"A">>}
      [] f = "surname" -> SurnameValues \cup {<<"L">>}
      [] f = "separator" -> SeparatorValues
      [] f = "phone_number" -> SetPhoneValues

\* an object as the constructor makes it: from no argument, or from the
\* tokens of a line
InitEntry ==
    /\ pc = "entry"
    /\ NothingRead
    /\ NothingSorted
    /\ NothingPrinted
    /\ entry \in {DefaultEntry,
                  PhoneBookEntry(1, s_John, <<>>, <<"*">>, Digits(5)),
                  PhoneBookEntry(1, s_John, s_Smith, <<"-">>, Digits(PhoneLen))}
    /\ call = NoCall
    /\ assigned = {}

\* the object after entry.f = v: unchanged when the setter raises
AfterSet(e, f, v) ==
    IF SetterError(f, v) = None THEN [e EXCEPT ![f] = v] ELSE e

\* the call entry.f = v as the last call made
SetCall(f, v) == [field |-> f, value |-> v, raised |-> SetterError(f, v)]

\* the fields assigned once entry.f = v is done
AssignedAfter(fields, f, v) ==
    IF SetterError(f, v) = None THEN fields \cup {f} ELSE fields

\* main.py:37-42, entry.name = v
SetName ==
    /\ pc = "entry"
    /\ \E v \in SetValues("name") :
           /\ entry' = AfterSet(entry, "name", v)
           /\ call' = SetCall("name", v)
           /\ assigned' = AssignedAfter(assigned, "name", v)
    /\ UNCHANGED <<pc, file, i, phone_book_entries, criteria, ordering,
                   sorted_entries, validation_message, validation_messages,
                   output, exit_status>>

\* main.py:49-54, entry.surname = v
SetSurname ==
    /\ pc = "entry"
    /\ \E v \in SetValues("surname") :
           /\ entry' = AfterSet(entry, "surname", v)
           /\ call' = SetCall("surname", v)
           /\ assigned' = AssignedAfter(assigned, "surname", v)
    /\ UNCHANGED <<pc, file, i, phone_book_entries, criteria, ordering,
                   sorted_entries, validation_message, validation_messages,
                   output, exit_status>>

\* main.py:61-66, entry.separator = v
SetSeparator ==
    /\ pc = "entry"
    /\ \E v \in SetValues("separator") :
           /\ entry' = AfterSet(entry, "separator", v)
           /\ call' = SetCall("separator", v)
           /\ assigned' = AssignedAfter(assigned, "separator", v)
    /\ UNCHANGED <<pc, file, i, phone_book_entries, criteria, ordering,
                   sorted_entries, validation_message, validation_messages,
                   output, exit_status>>

\* main.py:73-80, entry.phone_number = v
SetPhoneNumber ==
    /\ pc = "entry"
    /\ \E v \in SetValues("phone_number") :
           /\ entry' = AfterSet(entry, "phone_number", v)
           /\ call' = SetCall("phone_number", v)
           /\ assigned' = AssignedAfter(assigned, "phone_number", v)
    /\ UNCHANGED <<pc, file, i, phone_book_entries, criteria, ordering,
                   sorted_entries, validation_message, validation_messages,
                   output, exit_status>>

NextEntry ==
    \/ SetName
    \/ SetSurname
    \/ SetSeparator
    \/ SetPhoneNumber

\* every sequence of setter calls on an object
SpecEntry == InitEntry /\ [][NextEntry]_vars

\* -------- an entry printed and read back

\* the tokens a line can hold
RoundTripTokens ==
    {<<"A", "n">>, <<"-">>, <<":">>, <<"1", "2", "a">>, Digits(PhoneLen)}

InitRoundTrip ==
    /\ pc = "render"
    /\ NothingRead
    /\ NothingSorted
    /\ NothingPrinted
    /\ \E n \in RoundTripTokens, s \in RoundTripTokens \cup {<<>>},
          sep \in RoundTripTokens, p \in RoundTripTokens :
           entry = PhoneBookEntry(0, n, s, sep, p)
    /\ call = NoCall
    /\ assigned = {}

\* repr(entry) becomes the one line of a file, which is read next
Render ==
    /\ pc = "render"
    /\ file' = Source(<<Repr(entry)>>, None)
    /\ i' = 1
    /\ phone_book_entries' = <<>>
    /\ pc' = "read_loop"
    /\ UNCHANGED <<criteria, ordering, sorted_entries, validation_message,
                   validation_messages, output, exit_status, entry, call,
                   assigned>>

NextRoundTrip ==
    \/ Render
    \/ ReadLine
    \/ ReadReturn

\* repr of every entry the parser makes, read back
SpecRoundTrip == InitRoundTrip /\ [][NextRoundTrip]_vars

\* -------- main(), and sort_phone_book called with arguments as they are

\* main.py:173 reached with criteria and ordering that nothing lower-cased
InitSortCall ==
    /\ pc = "sort"
    /\ file = NoSource
    /\ i = 1
    /\ \E picks \in SeqsUpTo(1..2, 2) : phone_book_entries = SortList(picks)
    /\ criteria \in SortCriteria
    /\ ordering \in SortOrderings
    /\ sorted_entries = <<>>
    /\ NothingPrinted
    /\ NoEntry

\* the driver from the start of main(), or from a call of sort_phone_book
SpecDriver == (Init \/ InitSortCall) /\ [][Next]_vars

(***************************************************************************)
(* Properties of read_phone_book                                           *)
(***************************************************************************)

\* position a of the line starts a token: a character that is no whitespace,
\* at the start of the line or behind whitespace
StartsToken(line, a) ==
    /\ line[a] \notin Whitespace
    /\ a = 1 \/ line[a - 1] \in Whitespace

\* position b of the line ends a token
EndsToken(line, b) ==
    /\ line[b] \notin Whitespace
    /\ b = Len(line) \/ line[b + 1] \in Whitespace

TokenCount(line) == Cardinality({a \in 1..Len(line) : StartsToken(line, a)})

\* the k-th token of the line: from the k-th start to the first end behind it
TokenAt(line, k) ==
    LET a == CHOOSE x \in 1..Len(line) :
                 /\ StartsToken(line, x)
                 /\ Cardinality({y \in 1..(x - 1) : StartsToken(line, y)}) = k - 1
        b == CHOOSE x \in a..Len(line) :
                 /\ EndsToken(line, x)
                 /\ \A y \in a..(x - 1) : ~EndsToken(line, y)
    IN  SubSeq(line, a, b)

\* the lines of 3 or 4 tokens
Accepted(lines) == {k \in 1..Len(lines) : TokenCount(lines[k]) \in {3, 4}}

\* the j-th line of 3 or 4 tokens
AcceptedAt(lines, j) ==
    CHOOSE k \in Accepted(lines) :
        Cardinality({m \in Accepted(lines) : m < k}) = j - 1

\* the four fields of an entry
Fields(e) == <<e.name, e.surname, e.separator, e.phone_number>>

\* the fields the claim gives the entry of a line of 3 or 4 tokens
FieldsOfLine(line) ==
    IF TokenCount(line) = 4
    THEN <<TokenAt(line, 1), TokenAt(line, 2), TokenAt(line, 3), TokenAt(line, 4)>>
    ELSE <<TokenAt(line, 1), <<>>, TokenAt(line, 2), TokenAt(line, 3)>>

\* C1: read_phone_book returns one entry per line of 3 or 4 whitespace
\* separated tokens, in file order, and nothing for any other line; the
\* fields of the entry are the tokens in order, the surname of a 3-token
\* line empty, whether or not the tokens meet the constraints of the setters
C1_ReadOnePerAcceptedLine ==
    (pc = "input_criteria") =>
        /\ Len(phone_book_entries) = Cardinality(Accepted(file.lines))
        /\ \A j \in 1..Len(phone_book_entries) :
               Fields(phone_book_entries[j]) =
                   FieldsOfLine(file.lines[AcceptedAt(file.lines, j)])

\* a file of a skipped line, a 4-token line and a 3-token line is read, and
\* the entry of the 4-token line has a separator that its setter rejects
C1_Witness ==
    /\ pc = "input_criteria"
    /\ Len(file.lines) = 3
    /\ TokenCount(file.lines[1]) = 5
    /\ TokenCount(file.lines[2]) = 4
    /\ TokenCount(file.lines[3]) = 3
    /\ Len(phone_book_entries) = 2
    /\ SeparatorError(phone_book_entries[1].separator) # None
    /\ phone_book_entries[2].surname = <<>>

(***************************************************************************)
(* Properties of sort_phone_book                                           *)
(***************************************************************************)

\* the field of the entry that the criterion names
FieldOf(e, c) ==
    IF c = s_name THEN e.name
    ELSE IF c = s_surname THEN e.surname ELSE e.phone_number

\* s <= t in the lexicographic order of the code points: s is a prefix of t,
\* or s has the smaller character where they first differ
LexLeq(s, t) ==
    \/ Len(s) <= Len(t) /\ \A k \in 1..Len(s) : s[k] = t[k]
    \/ \E k \in 1..Len(s) :
           /\ k <= Len(t)
           /\ \A j \in 1..(k - 1) : s[j] = t[j]
           /\ CodePoint[s[k]] < CodePoint[t[k]]

\* how often x occurs in xs
Count(x, xs) == Cardinality({k \in 1..Len(xs) : xs[k] = x})

Elements(xs) == {xs[k] : k \in 1..Len(xs)}

\* ys holds the elements of xs, each as often as xs does
IsPermutation(ys, xs) ==
    /\ Len(ys) = Len(xs)
    /\ \A x \in Elements(xs) \cup Elements(ys) : Count(x, ys) = Count(x, xs)

\* C2: for a criterion among name, surname and phone_number, sort_phone_book
\* returns a permutation of its input that is non-increasing on the field
\* when the ordering is exactly "descending" and non-decreasing for every
\* other ordering; no ordering makes the call fail (the call only exits on a
\* criterion that is none of the three)
C2_SortedPermutation ==
    /\ (pc = "print_header") =>
           /\ CriteriaKnown(criteria)
           /\ IsPermutation(sorted_entries, phone_book_entries)
           /\ \A k \in 1..(Len(sorted_entries) - 1) :
                  IF ordering = s_descending
                  THEN LexLeq(FieldOf(sorted_entries[k + 1], criteria),
                              FieldOf(sorted_entries[k], criteria))
                  ELSE LexLeq(FieldOf(sorted_entries[k], criteria),
                              FieldOf(sorted_entries[k + 1], criteria))
    /\ (pc = "exit") => criteria \notin {s_name, s_surname, s_phone_number}
    /\ (pc = "sort" /\ criteria \in {s_name, s_surname, s_phone_number}) =>
           ~sort_phone_book(phone_book_entries, criteria, ordering).exit

\* three entries with different names, not in order, are sorted by name under
\* the ordering "Descending", which is not "descending"
C2_Witness ==
    /\ pc = "print_header"
    /\ criteria = s_name
    /\ ordering = <<"D", "e", "s", "c", "e", "n", "d", "i", "n", "g">>
    /\ Len(phone_book_entries) = 3
    /\ phone_book_entries[1].name = <<"b">>
    /\ phone_book_entries[2].name = <<"B">>
    /\ phone_book_entries[3].name = <<"a">>
    /\ sorted_entries # phone_book_entries

\* the place of the object with identity id in xs
PlaceOf(id, xs) == CHOOSE k \in 1..Len(xs) : xs[k].id = id

\* the pairs of places of the input whose entries are equal on the criterion
Ties(xs, c) ==
    {p \in (1..Len(xs)) \X (1..Len(xs)) :
        p[1] < p[2] /\ FieldOf(xs[p[1]], c) = FieldOf(xs[p[2]], c)}

\* C3: of two input entries equal on the chosen field, the one that comes
\* first in the input comes first in the output, under every ordering; with
\* such a pair the descending result is not the ascending result reversed
C3_SortStable ==
    (pc = "print_header") =>
        /\ \A p \in Ties(phone_book_entries, criteria) :
               PlaceOf(phone_book_entries[p[1]].id, sorted_entries)
                   < PlaceOf(phone_book_entries[p[2]].id, sorted_entries)
        /\ (ordering = s_descending /\ Ties(phone_book_entries, criteria) # {}) =>
               sorted_entries #
                   Reverse(sort_phone_book(phone_book_entries, criteria, <<>>).value)

\* a descending sort by name of a list with two entries of equal name and a
\* third of a greater name in between
C3_Witness ==
    /\ pc = "print_header"
    /\ criteria = s_name
    /\ ordering = s_descending
    /\ Len(phone_book_entries) = 3
    /\ phone_book_entries[1].name = <<"a">>
    /\ phone_book_entries[2].name = <<"b">>
    /\ phone_book_entries[3].name = <<"a">>
    /\ phone_book_entries[1] # phone_book_entries[3]
    /\ sorted_entries[2].id = 1
    /\ sorted_entries[3].id = 3

(***************************************************************************)
(* Properties of validate_phone_book_entry                                 *)
(***************************************************************************)

\* the str is made of decimal digits, one at least
AllDecimalDigits(s) ==
    /\ s # <<>>
    /\ \A k \in 1..Len(s) : s[k] \in DecimalDigits

\* the messages whose condition holds, in the fixed order
MessagesDue(e) ==
    LET due == [k \in 1..4 |->
                   CASE k = 1 -> e.name = <<>>
                     [] k = 2 -> ~AllDecimalDigits(e.phone_number)
                     [] k = 3 -> Len(e.phone_number) # 9
                     [] k = 4 -> e.separator # <<":">> /\ e.separator # <<"-">>]
        all == <<MsgName, MsgNumeric, MsgLength, MsgSeparator>>
    IN  SelectSeq(all, LAMBDA m : \E k \in 1..4 : all[k] = m /\ due[k])

\* C4: the validator returns exactly the messages whose condition holds, each
\* once and in the fixed order: name empty, phone number not all decimal
\* digits, phone number length not 9, separator neither ':' nor '-'; the
\* surname contributes nothing and a valid entry gets the empty list
C4_ValidatorMessages ==
    (pc = "validated") => validation_message = MessagesDue(entry)

\* the same on the entries whose phone number holds no digit that is not decimal
ValidatorMessagesOnDecimal ==
    (pc = "validated"
        /\ \A k \in 1..Len(entry.phone_number) :
               entry.phone_number[k] \in DigitChars =>
                   entry.phone_number[k] \in DecimalDigits)
        => validation_message = MessagesDue(entry)

\* "12345678a"
s_12345678a == WithLast(Digits(9), "a")

\* the entry (John, Smith, -, 12345678a) is validated
C5_Case ==
    /\ pc = "validated"
    /\ Fields(entry) = <<s_John, s_Smith, <<"-">>, s_12345678a>>

\* C5: the validator on (John, Smith, -, 12345678a) returns both "phone
\* number must be numeric" and "phone number must be 9 digits"
C5_BothMessages ==
    C5_Case =>
        /\ MsgNumeric \in Elements(validation_message)
        /\ MsgLength \in Elements(validation_message)

\* C5 amended: the validator on (John, Smith, -, 12345678a) returns exactly
\* the one message "phone number must be numeric"; the phone number has 9
\* characters, so the length check finds nothing
C5_OnlyNumeric ==
    C5_Case => validation_message = <<MsgNumeric>>

C5_Witness ==
    /\ C5_Case
    /\ Len(entry.phone_number) = 9
    /\ validation_message # <<>>

Violates(f, v) ==
    CASE f = "name" -> v = <<>>
      [] f = "surname" -> v = <<>>
      [] f = "separator" -> v # <<"-">> /\ v # <<":">>
      [] f = "phone_number" -> ~AllDecimalDigits(v) \/ Len(v) # 9

\* C6: a setter fails exactly when the value violates the constraint of its
\* field (name, surname: empty; separator: neither '-' nor ':'; phone number:
\* not all decimal digits, checked first, or length not 9); a failed set
\* leaves the four fields unchanged and a successful set changes only the
\* field set, so every field ever set successfully meets its constraint
C6_SettersEnforceConstraints ==
    [][LET f == call'.field
           v == call'.value
       IN  /\ (call'.raised # None) <=> Violates(f, v)
           /\ (f = "phone_number" /\ ~AllDecimalDigits(v)) =>
                  call'.raised = "ValueError: Phone number must be numeric"
           /\ call'.raised # None => entry' = entry
           /\ call'.raised = None => entry' = [entry EXCEPT ![f] = v]
           /\ \A g \in assigned' : ~Violates(g, entry'[g])]_vars

\* the same for the values that hold no digit that is not decimal
SettersEnforceConstraintsOnDecimal ==
    [][(\A k \in 1..Len(call'.value) :
            call'.value[k] \in DigitChars => call'.value[k] \in DecimalDigits)
       => LET f == call'.field
              v == call'.value
          IN  /\ (call'.raised # None) <=> Violates(f, v)
              /\ (f = "phone_number" /\ ~AllDecimalDigits(v)) =>
                     call'.raised = "ValueError: Phone number must be numeric"
              /\ call'.raised # None => entry' = entry
              /\ call'.raised = None => entry' = [entry EXCEPT ![f] = v]]_vars

(***************************************************************************)
(* Properties of repr and read_phone_book together                         *)
(***************************************************************************)

\* a token: a str of one character at least, none of them whitespace
IsToken(s) == s # <<>> /\ \A k \in 1..Len(s) : s[k] \notin Whitespace

\* the fields are those of an entry that the parser makes from a line
ParserMakes(e) ==
    /\ IsToken(e.name)
    /\ e.surname = <<>> \/ IsToken(e.surname)
    /\ IsToken(e.separator)
    /\ IsToken(e.phone_number)

\* C10: reading the repr of an entry the parser can make, as one line, gives
\* one entry with the same four fields, also when the surname is empty and
\* the repr has two spaces between the name and the separator
C10_ReprReadRoundTrip ==
    (pc = "input_criteria" /\ ParserMakes(entry)) =>
        /\ Len(phone_book_entries) = 1
        /\ Fields(phone_book_entries[1]) = Fields(entry)

\* an entry with an empty surname is printed with two spaces behind the name
\* and read back
C10_Witness ==
    /\ pc = "input_criteria"
    /\ ParserMakes(entry)
    /\ entry.surname = <<>>
    /\ Len(file.lines) = 1
    /\ \E k \in 1..(Len(file.lines[1]) - 1) :
           file.lines[1][k] = " " /\ file.lines[1][k + 1] = " "
    /\ Len(phone_book_entries) = 1
    /\ phone_book_entries[1].surname = <<>>

(***************************************************************************)
(* Properties of main                                                      *)
(***************************************************************************)

\* the prints of one kind, in the order printed
PrintsOf(kind) == SelectSeq(output, LAMBDA r : r.kind = kind)

HasPrinted(kind) == PrintsOf(kind) # <<>>

\* the user has interrupted the run
Interrupted == HasPrinted("Program interrupted by user.")

\* main() has returned
Completed == pc = "exit" /\ exit_status = 0 /\ ~Interrupted

\* the entries the validator has a message for, in their order
WithProblems(es) ==
    SelectSeq(es, LAMBDA e : validate_phone_book_entry(e) # <<>>)

\* the source, the criterion and the ordering of the example
C8_Example ==
    /\ file = Source(<<L_Ann, L_Bob>>, None)
    /\ criteria = s_name
    /\ ordering = <<"a", "s", "c", "e", "n", "d", "i", "n", "g">>

\* C8: "Validations:" is printed only when a sorted entry has a problem; the
\* section holds one line per entry with problems, in sorted order, numbered
\* 1, 2, 3, ... over those entries only, each with the messages of its entry
\* in validator order.  For the lines "Ann Lee - 123456789" and "Bob : 12345"
\* sorted by name ascending the sorted sequence is [Ann Lee, Bob] and the one
\* validation line is line1 with "phone number must be 9 digits"
C8_ValidationsSection ==
    LET lines == PrintsOf("validation")
        bad == WithProblems(sorted_entries)
    IN  /\ HasPrinted("Validations:") => bad # <<>>
        /\ Len(PrintsOf("Validations:")) <= 1
        /\ lines # <<>> => HasPrinted("Validations:")
        /\ Len(lines) <= Len(bad)
        /\ \A k \in 1..Len(lines) :
               /\ lines[k].n = k
               /\ lines[k].msgs = validate_phone_book_entry(bad[k])
        /\ Completed =>
               /\ Len(lines) = Len(bad)
               /\ bad # <<>> => HasPrinted("Validations:")
        /\ (Completed /\ C8_Example) =>
               /\ Len(sorted_entries) = 2
               /\ Fields(sorted_entries[1]) =
                      <<<<"A", "n", "n">>, <<"L", "e", "e">>, <<"-">>, Digits(9)>>
               /\ Fields(sorted_entries[2]) =
                      <<<<"B", "o", "b">>, <<>>, <<":">>, Digits(5)>>
               /\ Len(lines) = 1
               /\ lines[1].n = 1
               /\ lines[1].msgs = <<MsgLength>>

\* the run of the example has ended: the entry with the problem is the second
\* of the file and of the sorted sequence, and its line is line1
C8_Witness ==
    /\ Completed
    /\ C8_Example
    /\ validate_phone_book_entry(sorted_entries[1]) = <<>>
    /\ validate_phone_book_entry(sorted_entries[2]) # <<>>
    /\ PrintsOf("validation") = <<ValidationLine(0, <<MsgLength>>)>>

\* the source cannot be opened or read
Unreadable == file.error \notin {None, "unset"}

\* the criterion that sort_phone_book gets or would get is none of the three
BadCriterion ==
    criteria # Unbound /\ criteria \notin {s_name, s_surname, s_phone_number}

\* the diagnostics of a run that fails
PrintedDiagnostic ==
    \/ HasPrinted("File not found")
    \/ HasPrinted("An error occurred while reading the file")
    \/ HasPrinted("War: Wrong criteria")
    \/ HasPrinted("Traceback")

\* what C7 says of the runs that satisfy which
C7_Holds(which) ==
    /\ (which /\ pc = "exit" /\ (Unreadable \/ BadCriterion)) =>
           exit_status # 0 /\ exit_status # Running /\ PrintedDiagnostic
    /\ (which /\ (Unreadable \/ BadCriterion)) =>
           /\ ~HasPrinted("File Structure:")
           /\ ~HasPrinted("entry")
           /\ ~HasPrinted("validation")
           /\ pc \notin {"print_header", "print_loop", "validations_loop"}
    /\ (which /\ Unreadable) =>
           /\ pc \in {"read_loop", "exit"}
           /\ criteria = Unbound
           /\ sorted_entries = <<>>
           /\ validation_message = <<>>
    /\ (which /\ pc = "exit" /\ criteria = <<"N", "a", "m", "e">>) =>
           exit_status = 1 /\ HasPrinted("War: Wrong criteria")

\* C7: in every run of the driver an unreadable or missing source, or a sort
\* criterion outside name, surname and phone_number, ends the run with a
\* non-zero exit status after a diagnostic, before "File Structure", an entry
\* or a validation line is printed; with an unreadable source the sorter and
\* the validator are never called; "Name" passed to sort_phone_book as it is
\* is a fatal error
C7_FatalErrorsEndRun == C7_Holds(TRUE)

\* C7 amended: the same in every run that the user does not interrupt
C7_FatalErrorsEndUninterruptedRun == C7_Holds(~Interrupted)

\* a file is read, the criterion typed is none of the three, the ordering is
\* typed and the run has ended in sort_phone_book
C7_Witness ==
    /\ pc = "exit"
    /\ ~Interrupted
    /\ file.error = None
    /\ phone_book_entries # <<>>
    /\ BadCriterion
    /\ ordering # Unbound
    /\ exit_status = 1
    /\ HasPrinted("War: Wrong criteria")

====
